---- MODULE Spec2Model ----
(***************************************************************************)
(* A model of tuneup's Config store (src/src/lib.rs): one Config value     *)
(* (root: serde_yaml::Value, file: Option<String>), the filesystem it      *)
(* reads and writes, and the operations new, with_file, add, get,          *)
(* read_from_file and write_to_file.                                       *)
(*                                                                         *)
(* Text is a sequence of one-character strings, so that a document's       *)
(* length in bytes, and what an overwrite without truncation leaves of     *)
(* the old content, are what they are on disk.  The codec (serde_yaml 0.8  *)
(* over yaml-rust) is modelled on the block subset of YAML that the store  *)
(* writes: plain and double-quoted scalars, nested block mappings, the     *)
(* empty flow mapping, comments and the document marker.                   *)
(***************************************************************************)
EXTENDS Integers, Sequences, FiniteSets, TLC

(***************************************************************************)
(* Bounds of the model.                                                    *)
(***************************************************************************)
\* the values of Test2.field that add is given range over 0..MaxNum
MaxNum == 1
\* the number of calls made on the store in one run
MaxCalls == 6

(***************************************************************************)
(* serde_yaml::Value, restricted to the variants the model's documents     *)
(* hold: Null, Number (non-negative integers), String, Mapping.  A Mapping *)
(* is a LinkedHashMap: a sequence of <<key, value>> pairs in insertion     *)
(* order, with unique keys.                                                *)
(***************************************************************************)
Null == [tag |-> "Null"]
Number(n) == [tag |-> "Number", n |-> n]
String(s) == [tag |-> "String", s |-> s]
Mapping(m) == [tag |-> "Mapping", m |-> m]

IsMapping(v) == v.tag = "Mapping"

\* Mapping::new()
MappingNew == Mapping(<<>>)

\* Mapping::get / Value::get(&str): the index of the entry under key k, 0 if none
MappingIndex(m, k) ==
    IF \E i \in 1..Len(m) : m[i][1] = k
    THEN CHOOSE i \in 1..Len(m) : m[i][1] = k
    ELSE 0

\* the entries of m but the one under key k
MappingWithout(m, k) == SelectSeq(m, LAMBDA e : e[1] # k)

\* an insert that keeps the entry already under the key
MappingInsertAppend(m, k, v) == Append(m, <<k, v>>)

\* Mapping::insert (LinkedHashMap::insert): a new key is appended; an existing
\* key gets the new value and moves to the end of the iteration order
MappingInsert(m, k, v) == Append(MappingWithout(m, k), <<k, v>>)

(***************************************************************************)
(* Text: sequences of one-character strings.                               *)
(***************************************************************************)
Digits == <<"0", "1", "2", "3", "4", "5", "6", "7", "8", "9">>

IsDigit(c) == \E i \in 1..Len(Digits) : Digits[i] = c

DigitVal(c) == (CHOOSE i \in 1..Len(Digits) : Digits[i] = c) - 1

AllDigits(t) == Len(t) > 0 /\ \A i \in 1..Len(t) : IsDigit(t[i])

\* str::parse::<i64> on a string of digits
RECURSIVE ParseInt(_)
ParseInt(t) ==
    IF Len(t) = 0 THEN 0
    ELSE 10 * ParseInt(SubSeq(t, 1, Len(t) - 1)) + DigitVal(t[Len(t)])

\* the decimal rendering of an integer (i64's Display)
RECURSIVE Decimal(_)
Decimal(n) ==
    IF n < 10 THEN <<Digits[n + 1]>>
    ELSE Decimal(n \div 10) \o <<Digits[(n % 10) + 1]>>

RECURSIVE TrimLeft(_)
TrimLeft(t) ==
    IF Len(t) > 0 /\ t[1] = " " THEN TrimLeft(Tail(t)) ELSE t

RECURSIVE TrimRight(_)
TrimRight(t) ==
    IF Len(t) > 0 /\ t[Len(t)] = " " THEN TrimRight(SubSeq(t, 1, Len(t) - 1)) ELSE t

Trim(t) == TrimRight(TrimLeft(t))

\* the number of leading spaces of a line
Indent(t) == Len(t) - Len(TrimLeft(t))

Spaces(n) == [i \in 1..n |-> " "]

(***************************************************************************)
(* The emitter: serde_yaml::to_writer(f, &self.root), which renders the    *)
(* Value with yaml-rust's YamlEmitter: "---\n", then block mappings        *)
(* indented by two spaces a level, "~" for Null, "{}" for the empty        *)
(* mapping, and double quotes around a string that would not read back as  *)
(* the same string.  No newline ends the document.                         *)
(***************************************************************************)
QuoteFirst == {"&", "*", "?", "|", "-", "<", ">", "=", "!", "%", "@", "."}
QuoteAny == {":", "{", "}", "[", "]", ",", "#", "`", "\"", "'", "\\", "\n"}

\* yaml-rust's need_quotes
NeedQuotes(s) ==
    \/ Len(s) = 0
    \/ s[1] = " " \/ s[Len(s)] = " "
    \/ s[1] \in QuoteFirst
    \/ \E i \in 1..Len(s) : s[i] \in QuoteAny
    \/ s = <<"~">>
    \/ AllDigits(s)

\* yaml-rust's escape_str, without the enclosing quotes
RECURSIVE Escape(_)
Escape(s) ==
    IF Len(s) = 0 THEN <<>>
    ELSE (CASE s[1] = "\"" -> <<"\\", "\"">>
            [] s[1] = "\\" -> <<"\\", "\\">>
            [] s[1] = "\n" -> <<"\\", "n">>
            [] OTHER -> <<s[1]>>) \o Escape(Tail(s))

EmitString(s) ==
    IF NeedQuotes(s) THEN <<"\"">> \o Escape(s) \o <<"\"">> ELSE s

\* emit_node for a Value that is not a non-empty mapping
EmitScalar(v) ==
    CASE v.tag = "Null" -> <<"~">>
      [] v.tag = "Number" -> Decimal(v.n)
      [] v.tag = "String" -> EmitString(v.s)
      [] OTHER -> <<"{", "}">>

IsBlock(v) == v.tag = "Mapping" /\ Len(v.m) > 0

\* emit_hash at nesting level lvl: entry i and the entries after it
RECURSIVE EmitHash(_, _, _)
EmitHash(m, i, lvl) ==
    IF i > Len(m) THEN <<>>
    ELSE (IF i > 1 THEN <<"\n">> \o Spaces(2 * lvl) ELSE <<>>)
         \o EmitScalar(m[i][1]) \o <<":">>
         \o (IF IsBlock(m[i][2])
             THEN <<"\n">> \o Spaces(2 * (lvl + 1)) \o EmitHash(m[i][2].m, 1, lvl + 1)
             ELSE <<" ">> \o EmitScalar(m[i][2]))
         \o EmitHash(m, i + 1, lvl)

\* serde_yaml::to_string / to_writer of a Value
to_string(v) ==
    <<"-", "-", "-", "\n">> \o (IF IsBlock(v) THEN EmitHash(v.m, 1, 0) ELSE EmitScalar(v))

(***************************************************************************)
(* The parser: serde_yaml::from_reader::<Value>.  Ok(v) and Err are the    *)
(* two outcomes of a Result.                                               *)
(***************************************************************************)
Ok(v) == [ok |-> TRUE, val |-> v]
Err == [ok |-> FALSE, val |-> Null]

\* the lines of a text: the pieces between newlines, a last piece without a
\* newline included when it is not empty
RECURSIVE SplitLines(_, _)
SplitLines(t, cur) ==
    IF Len(t) = 0 THEN (IF Len(cur) = 0 THEN <<>> ELSE <<cur>>)
    ELSE IF t[1] = "\n" THEN <<cur>> \o SplitLines(Tail(t), <<>>)
    ELSE SplitLines(Tail(t), Append(cur, t[1]))

\* a "#" at the start of a line or after a space starts a comment
CommentAt(t, i) == t[i] = "#" /\ (i = 1 \/ t[i - 1] = " ")

StripComment(t) ==
    IF \E i \in 1..Len(t) : CommentAt(t, i)
    THEN SubSeq(t, 1, (CHOOSE i \in 1..Len(t) :
                           CommentAt(t, i) /\ \A j \in 1..(i - 1) : ~CommentAt(t, j)) - 1)
    ELSE t

\* a line without its indentation, its comment and the spaces around it
Content(t) == TrimRight(StripComment(Trim(t)))

\* the body of a double-quoted scalar from position i on: [ok, s, next], next
\* the position after the closing quote
RECURSIVE ScanQuoted(_, _, _)
ScanQuoted(t, i, acc) ==
    IF i > Len(t) THEN [ok |-> FALSE, s |-> acc, next |-> i]
    ELSE IF t[i] = "\"" THEN [ok |-> TRUE, s |-> acc, next |-> i + 1]
    ELSE IF t[i] = "\\"
         THEN IF i + 1 <= Len(t) /\ t[i + 1] \in {"\"", "\\", "n"}
              THEN ScanQuoted(t, i + 2, Append(acc, IF t[i + 1] = "n" THEN "\n" ELSE t[i + 1]))
              ELSE [ok |-> FALSE, s |-> acc, next |-> i]
    ELSE ScanQuoted(t, i + 1, Append(acc, t[i]))

\* a ":" that separates a key from its value: followed by a space or the end
SeparatorAt(t, i) == t[i] = ":" /\ (i = Len(t) \/ t[i + 1] = " ")

HasSeparator(t) == \E i \in 1..Len(t) : SeparatorAt(t, i)

FirstSeparator(t) ==
    CHOOSE i \in 1..Len(t) : SeparatorAt(t, i) /\ \A j \in 1..(i - 1) : ~SeparatorAt(t, j)

\* the characters that do not start a plain scalar
Indicators == {"\"", "{", "}", "[", "]", ",", "&", "*", "!", "|", ">", "%", "@", "`", "'"}

\* the scalar a plain (unquoted) text resolves to
PlainScalar(t) ==
    IF t = <<"~">> THEN Null
    ELSE IF AllDigits(t) THEN Number(ParseInt(t))
    ELSE String(t)

\* a double-quoted scalar t, scanned as q: nothing but a comment may follow it
QuotedInline(t, q) ==
    IF /\ q.ok
       /\ (q.next > Len(t) \/ t[q.next] = " ")
       /\ Len(Content(SubSeq(t, q.next, Len(t)))) = 0
    THEN Ok(String(q.s)) ELSE Err

\* an unquoted one-line node p: a plain scalar or the empty flow mapping;
\* other flow collections are outside the subset
PlainInline(p) ==
    IF Len(p) = 0 THEN Ok(Null)
    ELSE IF p = <<"{", "}">> THEN Ok(MappingNew)
    ELSE IF p[1] \in Indicators \/ HasSeparator(p) THEN Err
    ELSE Ok(PlainScalar(p))

\* a one-line node that is not a block mapping, from the line t without its
\* indentation
InlineOf(t) ==
    IF Len(t) > 0 /\ t[1] = "\"" THEN QuotedInline(t, ScanQuoted(t, 2, <<>>))
    ELSE PlainInline(Content(t))

ParseInline(t) == InlineOf(Trim(t))

NoEntry(t) == [entry |-> FALSE, ok |-> TRUE, key |-> Null, rest |-> t]

\* a line that starts with a double-quoted scalar, scanned as q: an entry when
\* a separator follows the closing quote
QuotedEntry(t, q) ==
    IF q.ok /\ Len(TrimLeft(SubSeq(t, q.next, Len(t)))) > 0
            /\ SeparatorAt(TrimLeft(SubSeq(t, q.next, Len(t))), 1)
    THEN [entry |-> TRUE, ok |-> TRUE, key |-> String(q.s),
          rest |-> Tail(TrimLeft(SubSeq(t, q.next, Len(t))))]
    ELSE NoEntry(t)

\* an entry whose key is the plain text k
PlainEntry(k, rest) ==
    [entry |-> TRUE, ok |-> k.ok /\ ~IsMapping(k.val), key |-> k.val, rest |-> rest]

\* an unquoted line t, p its content: an entry when p holds a separator
PlainSplit(t, p) ==
    IF HasSeparator(p)
    THEN PlainEntry(PlainInline(TrimRight(SubSeq(p, 1, FirstSeparator(p) - 1))),
                    SubSeq(t, FirstSeparator(p) + 1, Len(t)))
    ELSE NoEntry(t)

\* a line t without its indentation, split at the key separator:
\* [entry, ok, key, rest]; entry is FALSE for a line that holds no key
SplitTrimmed(t) ==
    IF Len(t) > 0 /\ t[1] = "\"" THEN QuotedEntry(t, ScanQuoted(t, 2, <<>>))
    ELSE PlainSplit(t, Content(t))

SplitEntry(t) == SplitTrimmed(Trim(t))

\* a line that holds a key
IsEntry(t) ==
    IF Len(Trim(t)) > 0 /\ Trim(t)[1] = "\"" THEN SplitEntry(t).entry
    ELSE HasSeparator(Content(t))

\* a line that starts a plain scalar or continues one
IsPlainLine(t) ==
    /\ Len(Content(t)) > 0
    /\ Content(t)[1] \notin Indicators
    /\ ~HasSeparator(Content(t))

\* the lines of a multi-line plain scalar, folded into one line
RECURSIVE Fold(_)
Fold(ls) ==
    IF Len(ls) = 0 THEN <<>>
    ELSE Content(ls[1]) \o (IF Len(ls) > 1 THEN <<" ">> \o Fold(Tail(ls)) ELSE <<>>)

\* the number of lines from line i on that are indented deeper than ind
RECURSIVE BodyLen(_, _, _)
BodyLen(ls, i, ind) ==
    IF i > Len(ls) \/ Indent(ls[i]) <= ind THEN 0
    ELSE 1 + BodyLen(ls, i + 1, ind)

\* a block node from its lines (none blank, none a comment): a block mapping
\* when the first line holds a key, else a scalar
RECURSIVE ParseBlock(_)
RECURSIVE ParseEntries(_, _, _)

\* the value of an entry: rest is what follows the separator on the entry's
\* line, body the deeper-indented lines after it
EntryValue(rest, body) ==
    IF Len(Trim(rest)) = 0 \/ Trim(rest)[1] = "#"
    THEN (IF Len(body) = 0 THEN Ok(Null) ELSE ParseBlock(body))
    ELSE IF Len(body) = 0 THEN ParseInline(rest)
    ELSE IF IsPlainLine(rest) /\ \A i \in 1..Len(body) : IsPlainLine(body[i])
         THEN Ok(String(Fold(<<rest>> \o body)))
         ELSE Err

\* the entry e on the first line, with its value v, goes into acc and the
\* lines after the entry's body are parsed
EntryInsert(after, ind, acc, e, v) ==
    IF ~e.entry \/ ~e.ok \/ ~v.ok THEN Err
    ELSE ParseEntries(after, ind, MappingInsert(acc, e.key, v.val))

\* the first line's entry e owns the n lines after it
EntryStep(ls, ind, acc, e, n) ==
    EntryInsert(SubSeq(ls, n + 2, Len(ls)), ind, acc, e,
                IF e.entry THEN EntryValue(e.rest, SubSeq(ls, 2, n + 1)) ELSE Err)

ParseEntries(ls, ind, acc) ==
    IF Len(ls) = 0 THEN Ok(Mapping(acc))
    ELSE IF Indent(ls[1]) # ind THEN Err
    ELSE EntryStep(ls, ind, acc, SplitEntry(ls[1]), BodyLen(ls, 2, ind))

ParseBlock(ls) ==
    IF IsEntry(ls[1]) THEN ParseEntries(ls, Indent(ls[1]), <<>>)
    ELSE IF Len(ls) = 1 THEN ParseInline(ls[1])
    ELSE IF \A i \in 1..Len(ls) : IsPlainLine(ls[i]) THEN Ok(String(Fold(ls)))
    ELSE Err

IsMarker(t) == TrimRight(t) = <<"-", "-", "-">>

IsBlank(t) == Len(Trim(t)) = 0 \/ Trim(t)[1] = "#"

\* the document after its marker, if it has one: Err on a second marker (more
\* than one document) and on an empty stream
ParseDocument(doc, marked) ==
    IF \E i \in 1..Len(doc) : IsMarker(doc[i]) THEN Err
    ELSE IF Len(doc) = 0 THEN (IF marked THEN Ok(Null) ELSE Err)
    ELSE ParseBlock(doc)

\* the lines of a stream that are neither blank nor comments
ParseLines(ls) ==
    IF Len(ls) > 0 /\ IsMarker(ls[1]) THEN ParseDocument(Tail(ls), TRUE)
    ELSE ParseDocument(ls, FALSE)

\* serde_yaml::from_reader::<Value> on a file's content
from_reader(text) ==
    ParseLines(SelectSeq(SplitLines(text, <<>>), LAMBDA l : ~IsBlank(l)))

(***************************************************************************)
(* The typed values a caller adds and gets: the test module's unit struct  *)
(* Test1 and struct Test2 { field: usize }, and a type whose Serialize     *)
(* implementation reports an error.                                        *)
(***************************************************************************)
Test1 == [type |-> "Test1"]
Test2(n) == [type |-> "Test2", field |-> n]
Unserializable == [type |-> "Unserializable"]

\* the name of Test2's field, as the derive renders it
FieldName == <<"f", "i", "e", "l", "d">>

\* the types get can be asked for
Types == {"Test1", "Test2"}

\* the values add can be given
Encodable == {Test1} \cup {Test2(n) : n \in 0..MaxNum}
Inputs == Encodable \cup {Unserializable}

\* serde_yaml::to_value(value)
to_value(x) ==
    CASE x.type = "Test1" -> Ok(Null)
      [] x.type = "Test2" -> Ok(Mapping(<< <<String(FieldName), Number(x.field)>> >>))
      [] OTHER -> Err

\* serde_yaml::to_value(name) for a &str
name_to_value(name) == String(name)

\* the derived field identifier of Test2 for a mapping key: a string names a
\* field, an integer indexes one, anything else is ignored or (a Null key) an
\* error
IsField(k) == k = String(FieldName) \/ k = Number(0)

\* a decoding that builds the requested type whatever the value holds
from_value_unchecked(T, v) ==
    CASE T = "Test1" -> [ok |-> TRUE, val |-> Test1]
      [] OTHER -> [ok |-> TRUE, val |-> Test2(0)]

\* serde_yaml::from_value::<T>(v)
from_value(T, v) ==
    CASE T = "Test1" ->
           IF v.tag = "Null" THEN [ok |-> TRUE, val |-> Test1] ELSE [ok |-> FALSE, val |-> Test1]
      [] OTHER ->
           IF /\ v.tag = "Mapping"
              /\ \A i \in 1..Len(v.m) : v.m[i][1].tag # "Null"
              /\ Cardinality({i \in 1..Len(v.m) : IsField(v.m[i][1])}) = 1
              /\ \A i \in 1..Len(v.m) : IsField(v.m[i][1]) => v.m[i][2].tag = "Number"
           THEN [ok |-> TRUE,
                 val |-> Test2(v.m[CHOOSE i \in 1..Len(v.m) : IsField(v.m[i][1])][2].n)]
           ELSE [ok |-> FALSE, val |-> Test1]

(***************************************************************************)
(* The filesystem: each path is absent, a regular file with a content, or  *)
(* a path the process may not open.                                        *)
(***************************************************************************)
Paths == {"config.yaml"}

Absent == [kind |-> "absent", data |-> <<>>]
Denied == [kind |-> "denied", data |-> <<>>]
RegularFile(text) == [kind |-> "file", data |-> text]

\* the contents a file may hold before the store first touches it
ScalarDoc == <<"1", "2", "3", "4", "5", "6", "7">>
EntryDoc == <<"a", ":", "\n", " ", " ", "f", "i", "e", "l", "d", ":", " ", "1", "2", "3">>
CommentedDoc == <<"a", ":", " ", "~", "\n", "#", " ", "c", "c", "c", "c", "c", "c", "c", "\n">>
MalformedDoc == <<"a", ":", " ", "{">>
InitialFiles ==
    {Absent, Denied, RegularFile(ScalarDoc), RegularFile(EntryDoc),
     RegularFile(CommentedDoc), RegularFile(MalformedDoc)}

\* the keys add and get are called with
Names == {<<"a">>, <<"b">>}

\* Option<String>
None == [some |-> FALSE, path |-> ""]
Some(p) == [some |-> TRUE, path |-> p]

\* what a call returned: Ok or an Error kind, with get's value
NoValue == [type |-> "none"]
Errors == {"SerializationFailed", "ConfigDoesNotExist", "DeserializationFailed",
           "FileOpenFailed", "FileDoesNotSet"}
Return(op, name, type, arg, kind, val) ==
    [op |-> op, name |-> name, type |-> type, arg |-> arg, kind |-> kind, val |-> val]

VARIABLES
    root,      \* Config.root
    file,      \* Config.file
    fs,        \* the filesystem: path -> file state
    panicked,  \* TRUE once a call has panicked: the thread is unwinding
    res,       \* the last call and what it returned
    pre,       \* history: root and fs as they were before the last call
    added,     \* history: name -> the value last added since the root was last replaced
    loaded,    \* history: the document of the last successful read_from_file
    lmp,       \* history: how far a load, add, write, reopen, load sequence has come
    calls      \* the number of calls made so far

vars == <<root, file, fs, panicked, res, pre, added, loaded, lmp, calls>>

Snapshot == [root |-> root, fs |-> fs, file |-> file]

\* the stages of the load-mutate-persist sequence: 1 a one-entry file is loaded,
\* 2 an entry is added under another key, 3 the store is written, 4 a fresh
\* store is made, 5 it is pointed at the same path, 6 it has read the file
Idle == [stage |-> 0, path |-> "", doc |-> MappingNew, name |-> <<>>, arg |-> NoValue]

\* Config::new(); a store starts as Config::new() or Config::new().with_file(p)
ConfigNew == [root |-> MappingNew, file |-> None]

Init ==
    /\ root = ConfigNew.root
    /\ file \in {ConfigNew.file} \cup {Some(p) : p \in Paths}
    /\ fs \in [Paths -> InitialFiles]
    /\ panicked = FALSE
    /\ res = Return(IF file.some THEN "with_file" ELSE "new", <<>>, "", NoValue, "Ok", NoValue)
    /\ pre = [root |-> root, fs |-> fs, file |-> ConfigNew.file]
    /\ added = [k \in Names |-> NoValue]
    /\ loaded = MappingNew
    /\ lmp = Idle
    /\ calls = 0

\* let c = Config::new(): a fresh store replaces the one in hand
New ==
    /\ ~panicked
    /\ calls < MaxCalls
    /\ calls' = calls + 1
    /\ root' = ConfigNew.root
    /\ file' = ConfigNew.file
    /\ res' = Return("new", <<>>, "", NoValue, "Ok", NoValue)
    /\ pre' = Snapshot
    /\ added' = [k \in Names |-> NoValue]
    /\ loaded' = MappingNew
    /\ lmp' = IF lmp.stage = 3 THEN [lmp EXCEPT !.stage = 4] ELSE Idle
    /\ UNCHANGED <<fs, panicked>>

\* the derived Config::default(): each field takes its type's default, which
\* is Value::Null for the root and None for the file
ConfigDefault == [root |-> Null, file |-> None]

\* let c = Config::default(): a store built by the derived Default replaces
\* the one in hand
Default ==
    /\ ~panicked
    /\ calls < MaxCalls
    /\ calls' = calls + 1
    /\ root' = ConfigDefault.root
    /\ file' = ConfigDefault.file
    /\ res' = Return("default", <<>>, "", NoValue, "Ok", NoValue)
    /\ pre' = Snapshot
    /\ added' = [k \in Names |-> NoValue]
    /\ loaded' = MappingNew
    /\ lmp' = Idle
    /\ UNCHANGED <<fs, panicked>>

\* Config::with_file
with_file(p) ==
    /\ ~panicked
    /\ calls < MaxCalls
    /\ calls' = calls + 1
    /\ file' = Some(p)
    /\ res' = Return("with_file", <<>>, "", NoValue, "Ok", NoValue)
    /\ pre' = Snapshot
    /\ lmp' = IF lmp.stage = 4 /\ p = lmp.path THEN [lmp EXCEPT !.stage = 5] ELSE Idle
    /\ UNCHANGED <<root, fs, panicked, added, loaded>>

\* a Config::file that falls back to a default path
file_or_default(f) ==
    [ok |-> TRUE, path |-> IF f.some THEN f.path ELSE CHOOSE p \in Paths : TRUE]

\* Config::file

Config_file(f) == [ok |-> f.some, path |-> f.path]

\* Value::get(name): the value under the string key, none when the value is
\* not a mapping or holds no such key
Value_get(v, name) ==
    IF IsMapping(v) /\ MappingIndex(v.m, String(name)) # 0
    THEN [some |-> TRUE, val |-> v.m[MappingIndex(v.m, String(name))][2]]
    ELSE [some |-> FALSE, val |-> Null]

\* what get returns for the outcome d of decoding the stored value
Decoded(d) ==
    IF d.ok THEN [kind |-> "Ok", val |-> d.val]
    ELSE [kind |-> "DeserializationFailed", val |-> NoValue]

\* a get that decodes Null for a name the root does not hold
get_missing_as_null(r, name, T) == Decoded(from_value(T, Value_get(r, name).val))

\* Config::get::<T>(name): the kind returned and the value
get(r, name, T) ==
    IF Value_get(r, name).some THEN Decoded(from_value(T, Value_get(r, name).val))
    ELSE [kind |-> "ConfigDoesNotExist", val |-> NoValue]

\* an add that leaves an entry already under the name as it is
add_keep_existing(r, name, x) ==
    IF IsMapping(r) /\ to_value(x).ok
    THEN [kind |-> "Ok",
          root |-> IF Value_get(r, name).some THEN r
                   ELSE Mapping(MappingInsert(r.m, name_to_value(name), to_value(x).val))]
    ELSE [kind |-> "panic", root |-> r]

\* an add that builds the root anew around the one entry
add_replacing(r, name, x) ==
    IF IsMapping(r) /\ to_value(x).ok
    THEN [kind |-> "Ok",
          root |-> Mapping(MappingInsert(<<>>, name_to_value(name), to_value(x).val))]
    ELSE [kind |-> "panic", root |-> r]

\* Config::add(name, value): unwrap panics when the root is no mapping and
\* when the value does not serialize
add(r, name, x) ==
    IF IsMapping(r) /\ to_value(x).ok
    THEN [kind |-> "Ok",
          root |-> Mapping(MappingInsert(r.m, name_to_value(name), to_value(x).val))]
    ELSE [kind |-> "panic", root |-> r]

\* a file opened for reading as write_to_file opens it, with create: a missing
\* file is opened as an empty one
File_open_create(st) == IF st.kind = "denied" THEN Err ELSE Ok(st.data)

\* the file opened for reading: Err when it is missing or may not be opened
File_open(st) == IF st.kind = "file" THEN Ok(st.data) ELSE Err

\* a read that empties the root before it decodes, and so loses it when the
\* decoding fails
ReadDecoded_clearing(r, d) ==
    IF d.ok THEN [kind |-> "Ok", root |-> d.val]
    ELSE [kind |-> "DeserializationFailed", root |-> MappingNew]

\* what read_from_file does with the decoded document d
ReadDecoded(r, d) ==
    IF d.ok THEN [kind |-> "Ok", root |-> d.val]
    ELSE [kind |-> "DeserializationFailed", root |-> r]

\* a read that keeps the entries the file does not replace
MergeDecoded(r, d) ==
    IF ~d.ok THEN [kind |-> "DeserializationFailed", root |-> r]
    ELSE IF IsMapping(r) /\ IsMapping(d.val)
         THEN [kind |-> "Ok",
               root |-> Mapping(r.m \o SelectSeq(d.val.m, LAMBDA e : MappingIndex(r.m, e[1]) = 0))]
         ELSE [kind |-> "Ok", root |-> d.val]

read_merging(r, f, files) ==
    IF ~Config_file(f).ok THEN [kind |-> "FileDoesNotSet", root |-> r]
    ELSE IF ~File_open(files[Config_file(f).path]).ok
         THEN [kind |-> "FileOpenFailed", root |-> r]
    ELSE MergeDecoded(r, from_reader(File_open(files[Config_file(f).path]).val))

\* Config::read_from_file
read_from_file(r, f, files) ==
    IF ~Config_file(f).ok THEN [kind |-> "FileDoesNotSet", root |-> r]
    ELSE IF ~File_open(files[Config_file(f).path]).ok
         THEN [kind |-> "FileOpenFailed", root |-> r]
    ELSE ReadDecoded(r, from_reader(File_open(files[Config_file(f).path]).val))

\* writing text at offset 0 of a file opened without truncate: what the old
\* content holds beyond the new text stays
Overwrite(old, new) == new \o SubSeq(old, Len(new) + 1, Len(old))

\* OpenOptions::new().read(true).write(true).create(true).open(path): a
\* missing file is created empty, an existing one keeps its content
OpenOptions_open(st) == IF st.kind = "denied" THEN Err ELSE Ok(st.data)

\* Config::write_to_file
write_to_file(r, f, files) ==
    IF ~Config_file(f).ok THEN [kind |-> "FileDoesNotSet", fs |-> files]
    ELSE IF ~OpenOptions_open(files[Config_file(f).path]).ok
         THEN [kind |-> "FileOpenFailed", fs |-> files]
    ELSE [kind |-> "Ok",
          fs |-> [files EXCEPT ![Config_file(f).path] =
                    RegularFile(Overwrite(OpenOptions_open(@).val, to_string(r)))]]

\* the step of a call add(name, x) that returns a
AddReturns(name, x, a) ==
    /\ root' = a.root
    /\ panicked' = (a.kind = "panic")
    /\ res' = Return("add", name, x.type, x, a.kind, NoValue)
    /\ added' = IF a.kind = "Ok" THEN [added EXCEPT ![name] = x] ELSE added
    /\ lmp' = IF a.kind = "Ok" /\ lmp.stage = 1 /\ lmp.doc.m[1][1] # String(name)
                 /\ lmp.doc.m[1][1].tag = "String"
              THEN [lmp EXCEPT !.stage = 2, !.name = name, !.arg = x]
              ELSE Idle
    /\ pre' = Snapshot
    /\ UNCHANGED <<file, fs, loaded>>

Add(name, x) ==
    /\ ~panicked
    /\ calls < MaxCalls
    /\ calls' = calls + 1
    /\ AddReturns(name, x, add(root, name, x))

\* a get that takes the entry out of the root as it reads it
GetReturns_taking(name, T, g) ==
    /\ res' = Return("get", name, T, NoValue, g.kind, g.val)
    /\ pre' = Snapshot
    /\ root' = IF Value_get(root, name).some
               THEN Mapping(MappingWithout(root.m, name_to_value(name)))
               ELSE root
    /\ UNCHANGED <<file, fs, panicked, added, loaded, lmp>>

\* the step of a call get::<T>(name) that returns g
GetReturns(name, T, g) ==
    /\ res' = Return("get", name, T, NoValue, g.kind, g.val)
    /\ pre' = Snapshot
    /\ UNCHANGED <<root, file, fs, panicked, added, loaded, lmp>>

Get(name, T) ==
    /\ ~panicked
    /\ calls < MaxCalls
    /\ calls' = calls + 1
    /\ GetReturns(name, T, get(root, name, T))

\* the step of a call read_from_file() that returns r
ReadReturns(r) ==
    /\ root' = r.root
    /\ res' = Return("read_from_file", <<>>, "", NoValue, r.kind, NoValue)
    /\ added' = IF r.kind = "Ok" THEN [k \in Names |-> NoValue] ELSE added
    /\ loaded' = IF r.kind = "Ok" THEN r.root ELSE loaded
    /\ lmp' = IF lmp.stage = 5 THEN [lmp EXCEPT !.stage = 6]
              ELSE IF r.kind = "Ok" /\ IsMapping(r.root) /\ Len(r.root.m) = 1
              THEN [Idle EXCEPT !.stage = 1, !.path = file.path, !.doc = r.root]
              ELSE Idle
    /\ pre' = Snapshot
    /\ UNCHANGED <<file, fs, panicked>>

ReadFromFile ==
    /\ ~panicked
    /\ calls < MaxCalls
    /\ calls' = calls + 1
    /\ ReadReturns(read_from_file(root, file, fs))

\* the step of a call write_to_file() that returns w
WriteReturns(w) ==
    /\ fs' = w.fs
    /\ res' = Return("write_to_file", <<>>, "", NoValue, w.kind, NoValue)
    /\ lmp' = IF w.kind = "Ok" /\ lmp.stage = 2 THEN [lmp EXCEPT !.stage = 3] ELSE Idle
    /\ pre' = Snapshot
    /\ UNCHANGED <<root, file, panicked, added, loaded>>

WriteToFile ==
    /\ ~panicked
    /\ calls < MaxCalls
    /\ calls' = calls + 1
    /\ WriteReturns(write_to_file(root, file, fs))

Next ==
    \/ New
    \/ \E p \in Paths : with_file(p)
    \/ \E name \in Names, x \in Inputs : Add(name, x)
    \/ \E name \in Names, T \in Types : Get(name, T)
    \/ ReadFromFile
    \/ WriteToFile

Spec == Init /\ [][Next]_vars

\* the programs that build their stores with Config::default() as well
NextWithDefault ==
    \/ Next
    \/ Default

SpecWithDefault == Init /\ [][NextWithDefault]_vars

(***************************************************************************)
(* The claims.                                                             *)
(***************************************************************************)
Result(kind, val) == [kind |-> kind, val |-> val]

\* the number of entries of the root under the name
EntriesUnder(v, name) ==
    Cardinality({i \in 1..Len(v.m) : v.m[i][1] = String(name)})

\* C1: round trip.  On a root that is a mapping, add(k, v) of an encodable v
\* returns Ok, and a get(k) at v's type that is the next call returns Ok with
\* a value equal to v.
C1_RoundTrip ==
    [][/\ (res'.op = "add" /\ IsMapping(root) /\ res'.arg \in Encodable)
            => res'.kind = "Ok"
       /\ (res.op = "add" /\ res.kind = "Ok" /\ res'.op = "get"
              /\ res'.name = res.name /\ res'.type = res.arg.type)
            => (res'.kind = "Ok" /\ res'.val = res.arg)]_vars

\* an add of Test2 { field: MaxNum } as the first call, the get of it as the second
C1_Witness ==
    /\ calls = 2
    /\ res.op = "get" /\ res.kind = "Ok"
    /\ res.val = Test2(MaxNum)
    /\ added[res.name] = res.val

\* C2: overwrite semantics.  For every key, the value last added under it
\* (whatever was added under it before, whatever was done to other keys) is
\* what get returns, and the root holds exactly one entry under the key.
C2_LastWriteWins ==
    \A k \in Names :
        added[k] # NoValue =>
            /\ IsMapping(root)
            /\ get(root, k, added[k].type) = Result("Ok", added[k])
            /\ EntriesUnder(root, k) = 1

\* an add that replaced another value added under the same key
C2_Witness ==
    /\ res.op = "add" /\ res.kind = "Ok"
    /\ ~Value_get(loaded, res.name).some
    /\ Value_get(pre.root, res.name).some
    /\ Value_get(pre.root, res.name).val # to_value(res.arg).val
    /\ \E k \in Names : k # res.name /\ added[k] # NoValue

\* C3: malformed content.  read_from_file on a file whose content is a
\* well-formed document that is no mapping at the top level (the scalar
\* 1234567) fails with DeserializationFailed.
C3_ScalarDocumentRejected ==
    (/\ res.op = "read_from_file"
     /\ file.some
     /\ fs[file.path].kind = "file"
     /\ from_reader(fs[file.path].data).ok
     /\ ~IsMapping(from_reader(fs[file.path].data).val))
        => res.kind = "DeserializationFailed"

\* C4: the root is a Mapping in every state reachable from Config::new().
C4_RootIsMapping == IsMapping(root)

\* C5: no panics.  Every call returns Ok or one of the five Error kinds.
C5_NoPanics == ~panicked /\ res.kind \in Errors \cup {"Ok"}

\* C6: load-mutate-persist.  After a one-entry file is loaded, an entry is
\* added under another key and the store is written, a fresh store pointed
\* at the same path reads the file and gets the original value under the
\* original key and the added value under the added key.
C6_LoadMutatePersist ==
    lmp.stage = 6 =>
        /\ res.op = "read_from_file" => res.kind = "Ok"
        /\ \A T \in Types :
              get(root, lmp.doc.m[1][1].s, T) = get(lmp.doc, lmp.doc.m[1][1].s, T)
        /\ get(root, lmp.name, lmp.arg.type) = Result("Ok", lmp.arg)

\* C7: after a successful write_to_file the file exists and its content is
\* exactly the encoding of the root, whatever it held before.
C7_WriteReplacesContent ==
    (res.op = "write_to_file" /\ res.kind = "Ok")
        => fs[file.path] = RegularFile(to_string(root))

\* C8: after a successful read_from_file the root is the file's document and
\* nothing else: get returns the file's value for every top-level key of the
\* file, and fails with ConfigDoesNotExist for every other key.
C8_ReadReplacesRoot ==
    (res.op = "read_from_file" /\ res.kind = "Ok") =>
        LET doc == from_reader(fs[file.path].data).val
            keys == IF IsMapping(doc) THEN {doc.m[i][1] : i \in 1..Len(doc.m)} ELSE {}
        IN  /\ root = doc
            /\ \A T \in Types :
                 /\ \A i \in 1..Len(IF IsMapping(doc) THEN doc.m ELSE <<>>) :
                        doc.m[i][1].tag = "String" =>
                            get(root, doc.m[i][1].s, T) =
                                (IF from_value(T, doc.m[i][2]).ok
                                 THEN Result("Ok", from_value(T, doc.m[i][2]).val)
                                 ELSE Result("DeserializationFailed", NoValue))
                 /\ \A k \in Names :
                        String(k) \notin keys =>
                            get(root, k, T) = Result("ConfigDoesNotExist", NoValue)

\* a read that dropped an entry added before it and brought the file's entry
C8_Witness ==
    /\ res.op = "read_from_file" /\ res.kind = "Ok"
    /\ IsMapping(root) /\ Len(root.m) > 0
    /\ \E k \in Names : Value_get(pre.root, k).some /\ ~Value_get(root, k).some

\* C9: no file configured.  On a store that was never given with_file,
\* read_from_file and write_to_file fail with FileDoesNotSet and change
\* neither the root nor the filesystem.
C9_NoFileConfigured ==
    (res.op \in {"read_from_file", "write_to_file"} /\ ~pre.file.some) =>
        /\ res.kind = "FileDoesNotSet"
        /\ root = pre.root
        /\ fs = pre.fs

\* a write attempted after adds on a store without a file
C9_Witness ==
    /\ res.op = "write_to_file" /\ res.kind = "FileDoesNotSet"
    /\ ~file.some
    /\ IsMapping(root) /\ Len(root.m) = 2

\* C10: missing key.  get(k) fails with ConfigDoesNotExist whenever k is no
\* key of the root: k was not added since the root was last replaced and is
\* no top-level key of the last loaded document.
C10_MissingKey ==
    res.op = "get" =>
        /\ ~Value_get(root, res.name).some => res.kind = "ConfigDoesNotExist"
        /\ (added[res.name] = NoValue /\ ~Value_get(loaded, res.name).some)
              => res.kind = "ConfigDoesNotExist"

\* a get of a key that the loaded document, which holds another, does not hold
C10_Witness ==
    /\ res.op = "get" /\ res.kind = "ConfigDoesNotExist"
    /\ IsMapping(loaded) /\ Len(loaded.m) > 0
    /\ \E k \in Names : Value_get(root, k).some

\* C11: missing file.  read_from_file on a store whose path names a file that
\* does not exist fails with FileOpenFailed, and the file still does not exist
\* afterwards: the filesystem and the root are as they were.
C11_MissingFile ==
    (res.op = "read_from_file" /\ pre.file.some
        /\ pre.fs[pre.file.path].kind = "absent") =>
        /\ res.kind = "FileOpenFailed"
        /\ fs[pre.file.path].kind = "absent"
        /\ fs = pre.fs
        /\ root = pre.root

\* a read of a missing file by a store that holds entries
C11_Witness ==
    /\ res.op = "read_from_file" /\ res.kind = "FileOpenFailed"
    /\ file.some /\ fs[file.path].kind = "absent"
    /\ IsMapping(root) /\ Len(root.m) > 0

\* the shapes a type cannot be decoded from: the unit struct Test1 from
\* anything but Null, the struct Test2 from anything but a mapping, and from a
\* mapping that holds no entry for its field
Incompatible(T, v) ==
    CASE T = "Test1" -> v.tag # "Null"
      [] OTHER ->
           \/ v.tag # "Mapping"
           \/ \A i \in 1..Len(v.m) : ~IsField(v.m[i][1])

\* C12: type mismatch.  When the value stored under k, by add or by a loaded
\* file, has a shape the requested type cannot be decoded from, get::<B>(k)
\* fails with DeserializationFailed: not ConfigDoesNotExist and not Ok.
C12_TypeMismatch ==
    res.op = "get" =>
        /\ (Value_get(root, res.name).some
               /\ Incompatible(res.type, Value_get(root, res.name).val))
              => res.kind = "DeserializationFailed"
        /\ (added[res.name] # NoValue /\ added[res.name].type # res.type)
              => res.kind = "DeserializationFailed"

\* a get at another type of a value that add stored in a store loaded from a
\* file
C12_Witness ==
    /\ res.op = "get" /\ res.kind = "DeserializationFailed"
    /\ added[res.name] # NoValue /\ added[res.name].type # res.type
    /\ IsMapping(loaded) /\ Len(loaded.m) > 0

\* C13: read_from_file is all-or-nothing on the root.  Whenever it returns an
\* error, which is one of FileDoesNotSet, FileOpenFailed and
\* DeserializationFailed, the root is the root before the call, so every get
\* returns what it returned before.
C13_ReadAllOrNothing ==
    (res.op = "read_from_file" /\ res.kind # "Ok") =>
        /\ res.kind \in {"FileDoesNotSet", "FileOpenFailed", "DeserializationFailed"}
        /\ root = pre.root
        /\ \A k \in Names, T \in Types : get(root, k, T) = get(pre.root, k, T)

\* a read that fails to decode the file, by a store that holds entries
C13_Witness ==
    /\ res.op = "read_from_file" /\ res.kind = "DeserializationFailed"
    /\ IsMapping(root) /\ Len(root.m) > 0
    /\ \E k \in Names, T \in Types : get(root, k, T).kind = "Ok"

\* C14: add reports an encoding failure as a value and does not partially
\* mutate.  When the codec cannot represent the value, add on a store whose
\* root is a mapping returns SerializationFailed and leaves the root as it
\* was.
C14_AddEncodingFailure ==
    (res.op = "add" /\ ~to_value(res.arg).ok /\ IsMapping(pre.root)) =>
        /\ res.kind = "SerializationFailed"
        /\ root = pre.root

\* C15: get and write_to_file never change the Config in memory.  After
\* either call, successful or failed, the root and the file path are those
\* before the call, and get leaves the filesystem as it was.
C15_GetWriteKeepConfig ==
    res.op \in {"get", "write_to_file"} =>
        /\ root = pre.root
        /\ file = pre.file
        /\ res.op = "get" => fs = pre.fs

\* a successful get on a store whose file holds a document that decodes to
\* its root
C15_Witness ==
    /\ res.op = "get" /\ res.kind = "Ok"
    /\ file.some /\ fs[file.path].kind = "file"
    /\ IsMapping(root) /\ Len(root.m) > 0
    /\ from_reader(fs[file.path].data) = Ok(root)

\* C16: every way of constructing a Config yields the empty store.  Right
\* after Config::new() and right after Config::default() the root is the empty
\* mapping and the file is None, so add and get behave on the one as on the
\* other.
C16_ConstructedEmpty ==
    res.op \in {"new", "default"} =>
        /\ root = MappingNew
        /\ file = None
        /\ \A k \in Names, T \in Types : get(root, k, T) = get(ConfigNew.root, k, T)
        /\ \A k \in Names, x \in Inputs : add(root, k, x) = add(ConfigNew.root, k, x)

\* C17: add(k, v) changes only the entry under k.  For every other key k2,
\* get(k2) at every type returns after the add what it returned before it,
\* and the file path and the filesystem are as they were.
C17_AddTouchesOnlyItsKey ==
    res.op = "add" =>
        /\ \A k2 \in Names \ {res.name}, T \in Types :
              get(root, k2, T) = get(pre.root, k2, T)
        /\ file = pre.file
        /\ fs = pre.fs

\* an add that replaces the entry under its key in a store with a file, while
\* another key holds an entry
C17_Witness ==
    /\ res.op = "add" /\ res.kind = "Ok"
    /\ file.some /\ fs[file.path].kind = "file"
    /\ Value_get(pre.root, res.name).some
    /\ Value_get(root, res.name) # Value_get(pre.root, res.name)
    /\ \E k2 \in Names \ {res.name} : Value_get(root, k2).some

====
